---- MODULE Spec2Model ----
(***************************************************************************)
(* The dashboard script static/script.js as a state machine: the page's    *)
(* DOM fields, the Leaflet map and marker, the checkWeather invocations    *)
(* and the /check messages in flight.                                      *)
(***************************************************************************)
EXTENDS Integers, Sequences, FiniteSets, Bags, TLC

VARIABLES
    map,          \* script.js:1   the Leaflet map: ready, view, layers
    marker,       \* script.js:2   the marker the script holds
    cityInput,    \* #cityInput.value
    pinInput,     \* #pinInput.value
    dateInput,    \* #dateInput.value
    checkboxes,   \* the .checkbox-item inputs, in document order
    loading,      \* 'loading' in document.body.classList
    barChart,     \* children of #barChart
    lineChart,    \* children of #lineChart
    infoCard,     \* content of #infoCard
    inv,          \* the checkWeather invocations, in call order
    net,          \* per invocation: its /check exchange
    fetches,      \* number of fetch("/check") calls made
    alerts        \* the alert() messages shown, in order

vars == <<map, marker, cityInput, pinInput, dateInput, checkboxes, loading,
          barChart, lineChart, infoCard, inv, net, fetches, alerts>>

----------------------------------------------------------------------------
(* Bounds of the model.                                                    *)

MaxQueries == 2
MaxTsLen == 7

----------------------------------------------------------------------------
(* JavaScript numbers as rationals n/d (d > 0); d = 0 is NaN.              *)

NaN == [n |-> 0, d |-> 0]

Abs(k) == IF k < 0 THEN -k ELSE k

RECURSIVE Gcd(_, _)
Gcd(a, b) == IF b = 0 THEN a ELSE Gcd(b, a % b)

Num(n, d) ==
    LET g == Gcd(Abs(n), d)
    IN  IF d = 0 THEN NaN ELSE [n |-> n \div g, d |-> d \div g]

Int2Num(k) == [n |-> k, d |-> 1]

IsNaN(x) == x.d = 0

NumAdd(x, y) == IF IsNaN(x) \/ IsNaN(y) THEN NaN
                ELSE Num(x.n * y.d + y.n * x.d, x.d * y.d)

NumSub(x, y) == IF IsNaN(x) \/ IsNaN(y) THEN NaN
                ELSE Num(x.n * y.d - y.n * x.d, x.d * y.d)

NumMul(x, y) == IF IsNaN(x) \/ IsNaN(y) THEN NaN
                ELSE Num(x.n * y.n, x.d * y.d)

\* x / y; the callers never divide by zero (maxVal >= 1, n - 1 >= 1)
NumDiv(x, y) == IF IsNaN(x) \/ IsNaN(y) \/ y.n = 0 THEN NaN
                ELSE IF y.n < 0 THEN Num(-(x.n * y.d), x.d * (-y.n))
                ELSE Num(x.n * y.d, x.d * y.n)

NumLess(x, y) == x.n * y.d < y.n * x.d

\* Math.max(a, b): NaN if either is NaN
NumMax(x, y) == IF IsNaN(x) \/ IsNaN(y) THEN NaN
                ELSE IF NumLess(x, y) THEN y ELSE x

----------------------------------------------------------------------------
(* Number.prototype.toFixed and number-to-string conversion.               *)

DigitChars == <<"0", "1", "2", "3", "4", "5", "6", "7", "8", "9">>

RECURSIVE NatToStr(_)
NatToStr(k) == IF k < 10 THEN DigitChars[k + 1]
               ELSE NatToStr(k \div 10) \o DigitChars[(k % 10) + 1]

RECURSIVE Pow10(_)
Pow10(k) == IF k = 0 THEN 1 ELSE 10 * Pow10(k - 1)

RECURSIVE PadDigits(_, _)
PadDigits(k, width) ==
    IF width = 0 THEN ""
    ELSE PadDigits(k \div 10, width - 1) \o DigitChars[(k % 10) + 1]

\* k decimal digits of r/d (0 <= r < d) by long division: the digits as
\* a number f and the remainder left
RECURSIVE LongDiv(_, _, _, _)
LongDiv(r, d, k, f) ==
    IF k = 0 THEN [f |-> f, r |-> r]
    ELSE LongDiv((r * 10) % d, d, k - 1, f * 10 + ((r * 10) \div d))

\* x.toFixed(digits): sign, integer part, ".", exactly `digits` decimals;
\* the nearest multiple of 10^-digits, the larger one on a tie.
ToFixed(x, digits) ==
    IF IsNaN(x) THEN "NaN"
    ELSE LET p     == Pow10(digits)
             whole == Abs(x.n) \div x.d
             ld    == LongDiv(Abs(x.n) % x.d, x.d, digits, 0)
             up    == 2 * ld.r >= x.d
             frac  == IF up THEN (ld.f + 1) % p ELSE ld.f
             int   == IF up /\ ld.f + 1 = p THEN whole + 1 ELSE whole
             body  == NatToStr(int) \o
                      (IF digits = 0 THEN "" ELSE "." \o PadDigits(frac, digits))
         IN  IF x.n < 0 THEN "-" \o body ELSE body

----------------------------------------------------------------------------
(* JSON / JavaScript values: a tag t and a payload v.                      *)

JUndef == [t |-> "undefined", v |-> 0]
JNull == [t |-> "null", v |-> 0]
JNum(x) == [t |-> "number", v |-> x]
JInt(k) == JNum(Int2Num(k))
JStr(s) == [t |-> "string", v |-> s]
JArr(a) == [t |-> "array", v |-> a]
JObj(o) == [t |-> "object", v |-> o]

\* ToBoolean
Truthy(x) ==
    CASE x.t = "undefined" -> FALSE
      [] x.t = "null"      -> FALSE
      [] x.t = "number"    -> ~IsNaN(x.v) /\ x.v.n # 0
      [] x.t = "string"    -> x.v # ""
      [] OTHER             -> TRUE

\* a || b
JOr(a, b) == IF Truthy(a) THEN a ELSE b

\* x[key] for a value that is not null or undefined: an own property of an
\* object, undefined on a number, a string or an array (the keys read here
\* are never indices or "length").
Prop(x, key) ==
    IF x.t = "object" /\ key \in DOMAIN x.v THEN x.v[key] ELSE JUndef

\* x.length
Length(x) ==
    CASE x.t = "array"  -> JInt(Len(x.v))
      [] x.t = "string" -> JInt(Len(x.v))
      [] OTHER          -> Prop(x, "length")

\* The numeric strings the inputs use; any other non-empty string is NaN.
NumericStrings == [s \in {"72"} |-> Int2Num(72)]

\* ToNumber, as Math.max and "/" apply it to undefined, null, numbers,
\* strings and plain objects
ToNumber(x) ==
    CASE x.t = "number"    -> x.v
      [] x.t = "null"      -> Int2Num(0)
      [] x.t = "string"    -> IF x.v = "" THEN Int2Num(0)
                              ELSE IF x.v \in DOMAIN NumericStrings
                                   THEN NumericStrings[x.v] ELSE NaN
      [] OTHER             -> NaN

----------------------------------------------------------------------------
(* script.js:6-12                                                          *)

METRICS == <<
    [id |-> "hot",  key |-> "very_hot",  label |-> "Very hot",  color |-> "#ff6b6b"],
    [id |-> "cold", key |-> "very_cold", label |-> "Very cold", color |-> "#6b9bff"],
    [id |-> "wet",  key |-> "very_wet",  label |-> "Very wet",  color |-> "#70d6ff"],
    [id |-> "windy", key |-> "very_windy", label |-> "Very windy", color |-> "#7dd3c0"],
    [id |-> "uncomfortable", key |-> "uncomfortable", label |-> "Uncomfortable",
     color |-> "#ff9ff3"] >>

\* Array.prototype.includes
Includes(arr, x) == \E i \in 1..Len(arr) : arr[i] = x

\* arr.filter(keep), for a sequence of metrics and a set of kept ids
RECURSIVE Filter(_, _)
Filter(arr, selected) ==
    IF arr = <<>> THEN <<>>
    ELSE (IF Includes(selected, Head(arr).id) THEN <<Head(arr)>> ELSE <<>>)
         \o Filter(Tail(arr), selected)

\* script.js:18: the ids of the checked checkboxes, in document order
RECURSIVE CheckedIds(_)
CheckedIds(boxes) ==
    IF boxes = <<>> THEN <<>>
    ELSE (IF Head(boxes).checked THEN <<Head(boxes).id>> ELSE <<>>)
         \o CheckedIds(Tail(boxes))

\* UseDefs walking the selection instead of the table
RECURSIVE MetricsOf(_)
MetricsOf(selected) ==
    IF selected = <<>> THEN <<>>
    ELSE Filter(METRICS, <<Head(selected)>>) \o MetricsOf(Tail(selected))
UseDefsInSelectionOrder(selected) ==
    IF Len(selected) = 0 THEN METRICS ELSE MetricsOf(selected)

\* script.js:53
UseDefs(selected) ==
    IF Len(selected) = 0 THEN METRICS ELSE Filter(METRICS, selected)

\* Prob testing the entry for truth instead of for its type, as the
\* summary card does (script.js:69)
ProbIfTruthy(data, m) ==
    IF Truthy(data.probabilities) /\ Truthy(Prop(data.probabilities, m.key))
    THEN ToNumber(Prop(data.probabilities, m.key))
    ELSE Int2Num(0)

\* script.js:56
Prob(data, m) ==
    IF Truthy(data.probabilities) /\ Prop(data.probabilities, m.key).t = "number"
    THEN Prop(data.probabilities, m.key).v
    ELSE Int2Num(0)

\* script.js:57-64: one .bar-item
BarItem(data, m) ==
    [className |-> "bar-item", height |-> Prob(data, m), background |-> m.color,
     label |-> m.label, text |-> Prob(data, m)]

\* script.js:51-65: the children of #barChart after the redraw
RenderBars(old, selected, data) ==
    LET cleared == <<>>      \* barChart.innerHTML = ''
        defs    == UseDefs(selected)
    IN  cleared \o [i \in 1..Len(defs) |-> BarItem(data, defs[i])]

----------------------------------------------------------------------------
(* drawLineChart, script.js:89-138.  An svg child is a record: its tag,    *)
(* its coordinates, its colour and what it holds (a path's d, a text's     *)
(* interpolated value).                                                    *)

viewW == 500
viewH == 200
leftPad == 40
rightPad == 20
topPad == 20
bottomPad == 30
WindowSize == 6

NoNum == Int2Num(0)

TextEl(x, y, fill, value) ==
    [tag |-> "text", x |-> x, y |-> y, x2 |-> NoNum, y2 |-> NoNum,
     fill |-> fill, body |-> <<value>>]
LineEl(x1, y1, x2, y2, stroke) ==
    [tag |-> "line", x |-> x1, y |-> y1, x2 |-> x2, y2 |-> y2,
     fill |-> stroke, body |-> <<>>]
PathEl(d, stroke) ==
    [tag |-> "path", x |-> NoNum, y |-> NoNum, x2 |-> NoNum, y2 |-> NoNum,
     fill |-> stroke, body |-> <<JStr(d)>>]
CircleEl(cx, cy, fill) ==
    [tag |-> "circle", x |-> cx, y |-> cy, x2 |-> NoNum, y2 |-> NoNum,
     fill |-> fill, body |-> <<>>]
RectEl(x, y, fill) ==
    [tag |-> "rect", x |-> x, y |-> y, x2 |-> NoNum, y2 |-> NoNum,
     fill |-> fill, body |-> <<>>]

\* script.js:95
Placeholder ==
    TextEl(Int2Num(20), Num(viewH, 2), "#999", JStr("No time-series data"))

\* script.js:134-137
Legend == <<
    RectEl(Int2Num(viewW - 140), Int2Num(topPad), "#ff6b6b"),
    TextEl(Int2Num(viewW - 124), Int2Num(topPad + 9), "#333", JStr("Temp (°C)")),
    RectEl(Int2Num(viewW - 140), Int2Num(topPad + 18), "#70d6ff"),
    TextEl(Int2Num(viewW - 124), Int2Num(topPad + 27), "#333", JStr("Rain (mm)")) >>

\* SliceLast taking the window from the front: ts.slice(0, 6)
SliceFirst(arr, k) ==
    IF Len(arr) <= k THEN arr ELSE SubSeq(arr, 1, k)

\* script.js:99  ts.slice(-6) on an array
SliceLast(arr, k) ==
    IF Len(arr) <= k THEN arr ELSE SubSeq(arr, Len(arr) - k + 1, Len(arr))

\* script.js:101-102
width == viewW - leftPad - rightPad
height == viewH - topPad - bottomPad

\* script.js:104, i counted from 0
xFor(i, n) ==
    NumAdd(Int2Num(leftPad),
           IF n = 1 THEN Num(width, 2)
           ELSE NumMul(Int2Num(i), Num(width, n - 1)))

\* p.hot || 0, p.wet || 0 (script.js:106-107, 118-119, 127-128)
Field(p, name) == JOr(Prop(p, name), JInt(0))

\* Math.max(...values, 1)  (script.js:106-107)
RECURSIVE MaxOf(_, _)
MaxOf(values, acc) ==
    IF values = <<>> THEN acc
    ELSE MaxOf(Tail(values), NumMax(acc, ToNumber(Head(values))))

\* script.js:112-113 and 127-128
yFor(v, maxVal) ==
    LET ratio == IF ~IsNaN(maxVal) /\ maxVal.n = 0 THEN Int2Num(0)
                 ELSE NumDiv(ToNumber(v), maxVal)
    IN  NumAdd(Int2Num(topPad),
               NumSub(Int2Num(height), NumMul(ratio, Int2Num(height))))

\* script.js:109-116
RECURSIVE buildPath(_, _, _, _)
buildPath(arr, maxVal, i, n) ==
    IF i >= n THEN ""
    ELSE (IF i = 0 THEN "M" ELSE " L") \o " " \o ToFixed(xFor(i, n), 2) \o " "
         \o ToFixed(yFor(arr[i + 1], maxVal), 2)
         \o buildPath(arr, maxVal, i + 1, n)

\* script.js:125-132: the three elements of point i (from 0)
PointEls(p, i, n, maxHot, maxWet) == <<
    CircleEl(xFor(i, n), yFor(Field(p, "hot"), maxHot), "#ff6b6b"),
    CircleEl(xFor(i, n), yFor(Field(p, "wet"), maxWet), "#70d6ff"),
    TextEl(xFor(i, n), Int2Num(topPad + height + 18), "#666", Prop(p, "date")) >>

RECURSIVE AllPointEls(_, _, _, _)
AllPointEls(last, i, maxHot, maxWet) ==
    IF i >= Len(last) THEN <<>>
    ELSE PointEls(last[i + 1], i, Len(last), maxHot, maxWet)
         \o AllPointEls(last, i + 1, maxHot, maxWet)

\* Reading a property of null or undefined throws a TypeError
Nullish(x) == x.t \in {"undefined", "null"}

\* Drawing with the legend drawn before the points
DrawingLegendFirst(last, hots, wets, maxHot, maxWet) ==
    << LineEl(Int2Num(leftPad), Int2Num(topPad),
              Int2Num(leftPad), Int2Num(topPad + height), "#eee"),
       PathEl(buildPath(hots, maxHot, 0, Len(last)), "#ff6b6b"),
       PathEl(buildPath(wets, maxWet, 0, Len(last)), "#70d6ff") >>
    \o Legend
    \o AllPointEls(last, 0, maxHot, maxWet)

\* script.js:121-137: the elements drawn for the window `last`, given the
\* values and the maxima of the two series
Drawing(last, hots, wets, maxHot, maxWet) ==
    << LineEl(Int2Num(leftPad), Int2Num(topPad),
              Int2Num(leftPad), Int2Num(topPad + height), "#eee"),
       PathEl(buildPath(hots, maxHot, 0, Len(last)), "#ff6b6b"),
       PathEl(buildPath(wets, maxWet, 0, Len(last)), "#70d6ff") >>
    \o AllPointEls(last, 0, maxHot, maxWet)
    \o Legend

\* script.js:106-107, 118-119
Series(last, name) == [i \in 1..Len(last) |-> Field(last[i], name)]

\* script.js:99-137, for an array ts
DrawWindow(last) ==
    IF \E i \in 1..Len(last) : Nullish(last[i])
    THEN [svg |-> <<>>,
          err |-> "Cannot read properties of null (reading 'hot')"]
    ELSE [svg |-> Drawing(last, Series(last, "hot"), Series(last, "wet"),
                          MaxOf(Series(last, "hot"), Int2Num(1)),
                          MaxOf(Series(last, "wet"), Int2Num(1))),
          err |-> ""]

\* drawLineChart(ts): the children of #lineChart afterwards and the message
\* of the exception raised ("" for none).  old is the content before, which
\* svg.innerHTML = '' drops.
DrawLineChart(old, ts) ==
    IF ~Truthy(ts) \/ Length(ts) = JInt(0)
    THEN [svg |-> <<Placeholder>>, err |-> ""]
    ELSE IF ts.t \notin {"array", "string"}
    THEN [svg |-> <<>>, err |-> "ts.slice is not a function"]
    ELSE IF ts.t = "string"
    THEN [svg |-> <<>>, err |-> "last.map is not a function"]
    ELSE DrawWindow(SliceLast(ts.v, WindowSize))

----------------------------------------------------------------------------
(* The page outside the script: what index.html gives the elements the     *)
(* script reads.                                                           *)

\* the checkbox ids of the page (the metric identifiers)
CheckboxIds == {"hot", "cold", "wet", "windy", "uncomfortable"}

\* the body carries no 'loading' class when the page loads
BodyLoadingAtLoad == FALSE

\* the text inputs are empty when the page loads
InputAtLoad == ""

\* the summary card before any query
CardAtLoad == [hp |-> JUndef, wp |-> JUndef, city |-> JUndef, date |-> ""]

\* script.js:4: the date input is set to the day the page loads
Today == "2026-11-03"

----------------------------------------------------------------------------
(* Leaflet: a map holds a view and a bag of layers; a marker is a layer.   *)

NullMarker == [kind |-> "null", pos |-> <<JUndef, JUndef>>, popup |-> JUndef]
NullMap == [ready |-> FALSE, center |-> <<JUndef, JUndef>>, zoom |-> 0,
            layers |-> EmptyBag]

\* L.marker(pos).bindPopup(popup)
Marker(pos, popup) == [kind |-> "marker", pos |-> pos, popup |-> popup]

\* script.js:191-194
TileLayer == [kind |-> "tile", pos |-> <<JUndef, JUndef>>,
              popup |-> JStr("https://{s}.tile.openstreetmap.org/{z}/{x}/{y}.png")]

\* script.js:188, 197
KarachiPos == <<JNum(Num(2486, 100)), JNum(Int2Num(67))>>
DefaultZoom == 10

\* layer.addTo(m)
AddLayer(m, layer) == [m EXCEPT !.layers = @ (+) SetToBag({layer})]

\* m.removeLayer(layer): nothing happens when the layer is not on the map
RemoveLayer(m, layer) == [m EXCEPT !.layers = @ (-) SetToBag({layer})]

\* RemoveHeld with the removal forgotten
RemoveHeldNever(m, held) == m

\* if (marker) map.removeLayer(marker)   (script.js:40-42, 206)
RemoveHeld(m, held) == IF held.kind = "null" THEN m ELSE RemoveLayer(m, held)

\* marker = L.marker(pos).addTo(map).bindPopup(popup)  after the removal
\* of the held one (script.js:40-47, 206-209)
ReplaceMarker(m, held, pos, popup) ==
    AddLayer(RemoveHeld(m, held), Marker(pos, popup))

\* the marker layers on the map
MarkerLayers(m) == {l \in BagToSet(m.layers) : l.kind = "marker"}
MarkerCount(m) ==
    LET ms == MarkerLayers(m)
    IN  IF ms = {} THEN 0
        ELSE BagCardinality([l \in ms |-> m.layers[l]])

\* Whether Leaflet takes [lat, lon] as a position: it does for numbers;
\* what it does with anything else belongs to the library, so both a
\* thrown error and an accepted position are possible.
IsCoordinate(x) == x.t = "number" /\ ~IsNaN(x.v)
LeafletAccepts(lat, lon) ==
    IF IsCoordinate(lat) /\ IsCoordinate(lon) THEN {TRUE} ELSE {TRUE, FALSE}

\* what Leaflet may do with the coords of a response: it is asked only
\* when the map exists and coords is an array of two
AcceptChoices(m, data) ==
    IF m.ready /\ data.coords.t = "array" /\ Len(data.coords.v) = 2
    THEN LeafletAccepts(data.coords.v[1], data.coords.v[2])
    ELSE {TRUE}

----------------------------------------------------------------------------
(* checkWeather, script.js:14-87                                           *)

\* String.prototype.trim on the pin texts the inputs use; a text with no
\* surrounding white space is its own trim.
TrimTable == [s \in {" 10,20 "} |-> "10,20"]
Trim(s) == IF s \in DOMAIN TrimTable THEN TrimTable[s] ELSE s

\* script.js:15  value || "Karachi"
CityOrDefault(text) == IF text = "" THEN "Karachi" ELSE text

\* script.js:20
LatLon(pin) == IF pin # "" THEN JStr(Trim(pin)) ELSE JNull

\* script.js:83
AlertText(message) ==
    "Oops: " \o message \o ". Try a past date or change city/coords."

\* const [lat, lon] = data.coords, for an array of two
Destructure(coords) == <<coords.v[1], coords.v[2]>>

\* script.js:34-49: the map and the marker afterwards, and the message of
\* the exception raised ("" for none).  accept: whether Leaflet takes the
\* position.
UpdateMap(m, held, data, city, accept) ==
    IF ~(Truthy(data.coords) /\ Length(data.coords) = JInt(2))
    THEN [map |-> m, marker |-> held, err |-> ""]
    ELSE IF data.coords.t # "array"
    THEN [map |-> m, marker |-> held, err |-> "data.coords is not iterable"]
    ELSE IF ~m.ready
    THEN [map |-> m, marker |-> held, err |-> ""]
    ELSE IF ~accept
    THEN [map |-> m, marker |-> held, err |-> "Invalid LatLng object"]
    ELSE LET pos  == Destructure(data.coords)
             name == JOr(data.city, JOr(JStr(city), JStr("Selected Location")))
             m1   == [m EXCEPT !.center = pos, !.zoom = DefaultZoom]
         IN  [map |-> ReplaceMarker(m1, held, pos, name),
              marker |-> Marker(pos, name), err |-> ""]

\* script.js:69-79
SummaryCard(data, city, date) ==
    LET pick(key) == IF Truthy(data.probabilities)
                        /\ Truthy(Prop(data.probabilities, key))
                     THEN Prop(data.probabilities, key) ELSE JInt(0)
    IN  [hp |-> pick("very_hot"), wp |-> pick("very_wet"),
         city |-> JOr(data.city, JOr(JStr(city), JStr("Selected Location"))),
         date |-> date]

\* script.js:67
TimeSeriesOf(data) == JOr(data.time_series, JArr(<<>>))

\* script.js:51-79, given the outcome m of the map update and d of
\* drawLineChart
RenderCharts(m, d, frame, data) ==
    IF m.err # ""
    THEN [map |-> m.map, marker |-> m.marker, barChart |-> barChart,
          lineChart |-> lineChart, infoCard |-> infoCard, err |-> m.err]
    ELSE IF d.err # ""
    THEN [map |-> m.map, marker |-> m.marker,
          barChart |-> RenderBars(barChart, frame.selected, data),
          lineChart |-> d.svg, infoCard |-> infoCard, err |-> d.err]
    ELSE [map |-> m.map, marker |-> m.marker,
          barChart |-> RenderBars(barChart, frame.selected, data),
          lineChart |-> d.svg,
          infoCard |-> SummaryCard(data, frame.city, frame.date),
          err |-> ""]

\* script.js:31-79: everything the try block does once the body parsed, up
\* to the first exception: the page afterwards and the exception's message.
Render(frame, data, accept) ==
    RenderCharts(UpdateMap(map, marker, data, frame.city, accept),
                 DrawLineChart(lineChart, TimeSeriesOf(data)), frame, data)

----------------------------------------------------------------------------
(* The /check exchange of an invocation.                                   *)

NoData == [coords |-> JUndef, city |-> JUndef, probabilities |-> JUndef,
           time_series |-> JUndef]
NoRequest == [city |-> "", date |-> "", selected_metrics |-> <<>>,
              lat_lon |-> JNull]

\* st: "sent" (request on its way), "fail" (the network failed), "resp" (a
\* response arrived: status, whether the body parses as JSON, the parsed
\* body), "closed" (the invocation is over)
Closed == [st |-> "closed", req |-> NoRequest, status |-> 0, parses |-> FALSE,
           data |-> NoData]

Reply(status, parses, data) == [status |-> status, parses |-> parses, data |-> data]

\* resp.ok
Ok(status) == status >= 200 /\ status <= 299

Invocations == 1..Len(inv)

\* the invocations whose /check request is sent and not yet settled
Outstanding == {q \in Invocations : inv[q].pc = "fetch"}

----------------------------------------------------------------------------
(* State after the script's top level has run (script.js:1-12).            *)

Boxes(order, checked) ==
    [i \in 1..Len(order) |-> [id |-> order[i], checked |-> order[i] \in checked]]

PageInit(orders, checkedSets, bars, svgs) ==
    /\ map = NullMap
    /\ marker = NullMarker
    /\ cityInput = InputAtLoad
    /\ pinInput = InputAtLoad
    /\ dateInput = Today
    /\ \E o \in orders, c \in checkedSets : checkboxes = Boxes(o, c)
    /\ loading = BodyLoadingAtLoad
    /\ barChart \in bars
    /\ lineChart \in svgs
    /\ infoCard = CardAtLoad
    /\ inv = <<>>
    /\ net = <<>>
    /\ fetches = 0
    /\ alerts = <<>>

----------------------------------------------------------------------------
(* The handlers.                                                           *)

\* script.js:186-216 (the listener's own body: 188-199, 202)
DOMContentLoaded ==
    /\ ~map.ready
    /\ map' = AddLayer(AddLayer([NullMap EXCEPT !.ready = TRUE,
                                                !.center = KarachiPos,
                                                !.zoom = DefaultZoom],
                                TileLayer),
                       Marker(KarachiPos, JStr("Karachi")))
    /\ marker' = Marker(KarachiPos, JStr("Karachi"))
    /\ UNCHANGED <<cityInput, pinInput, dateInput, checkboxes, loading,
                   barChart, lineChart, infoCard, inv, net, fetches, alerts>>

\* MapClick that leaves the city field alone
MapClickKeepsCity(lat, lng) ==
    LET latS == ToFixed(lat, 5)
        lonS == ToFixed(lng, 5)
        pos  == <<JStr(latS), JStr(lonS)>>
        name == JStr("Selected Location: " \o latS \o ", " \o lonS)
    IN  /\ map.ready
        /\ map' = ReplaceMarker(map, marker, pos, name)
        /\ marker' = Marker(pos, name)
        /\ pinInput' = latS \o "," \o lonS
        /\ UNCHANGED <<cityInput, dateInput, checkboxes, loading, barChart,
                       lineChart, infoCard, inv, net, fetches, alerts>>

\* script.js:202-215, for a click at (lat, lng)
MapClick(lat, lng) ==
    LET latS == ToFixed(lat, 5)
        lonS == ToFixed(lng, 5)
        pos  == <<JStr(latS), JStr(lonS)>>
        name == JStr("Selected Location: " \o latS \o ", " \o lonS)
    IN  /\ map.ready
        /\ map' = ReplaceMarker(map, marker, pos, name)
        /\ marker' = Marker(pos, name)
        /\ pinInput' = latS \o "," \o lonS
        /\ cityInput' = ""
        /\ UNCHANGED <<dateInput, checkboxes, loading, barChart, lineChart,
                       infoCard, inv, net, fetches, alerts>>

\* the user edits the form
TypeCity(text) ==
    /\ cityInput # text
    /\ cityInput' = text
    /\ UNCHANGED <<map, marker, pinInput, dateInput, checkboxes, loading,
                   barChart, lineChart, infoCard, inv, net, fetches, alerts>>

TypePin(text) ==
    /\ pinInput # text
    /\ pinInput' = text
    /\ UNCHANGED <<map, marker, cityInput, dateInput, checkboxes, loading,
                   barChart, lineChart, infoCard, inv, net, fetches, alerts>>

PickDate(date) ==
    /\ dateInput # date
    /\ dateInput' = date
    /\ UNCHANGED <<map, marker, cityInput, pinInput, checkboxes, loading,
                   barChart, lineChart, infoCard, inv, net, fetches, alerts>>

ToggleCheckbox(id) ==
    /\ checkboxes' = [i \in 1..Len(checkboxes) |->
                        IF checkboxes[i].id = id
                        THEN [checkboxes[i] EXCEPT !.checked = ~@]
                        ELSE checkboxes[i]]
    /\ UNCHANGED <<map, marker, cityInput, pinInput, dateInput, loading,
                   barChart, lineChart, infoCard, inv, net, fetches, alerts>>

\* script.js:15-28: checkWeather up to its first await
CheckWeather ==
    LET city     == CityOrDefault(cityInput)
        pin      == pinInput
        date     == dateInput
        selected == CheckedIds(checkboxes)
        lat_lon  == LatLon(pin)
    IN  /\ loading' = TRUE
        /\ fetches' = fetches + 1
        /\ net' = Append(net, [Closed EXCEPT
                     !.st = "sent",
                     !.req = [city |-> city, date |-> date,
                              selected_metrics |-> selected,
                              lat_lon |-> lat_lon]])
        /\ inv' = Append(inv, [pc |-> "fetch", city |-> city, date |-> date,
                               selected |-> selected])
        /\ UNCHANGED <<map, marker, cityInput, pinInput, dateInput, checkboxes,
                       barChart, lineChart, infoCard, alerts>>

\* the server answers request q
Respond(q, reply) ==
    /\ q \in Invocations
    /\ net[q].st = "sent"
    /\ net' = [net EXCEPT ![q] = [@ EXCEPT !.st = "resp",
                                           !.status = reply.status,
                                           !.parses = reply.parses,
                                           !.data = reply.data]]
    /\ UNCHANGED <<map, marker, cityInput, pinInput, dateInput, checkboxes,
                   loading, barChart, lineChart, infoCard, inv, fetches, alerts>>

\* the network fails request q
NetworkFail(q) ==
    /\ q \in Invocations
    /\ net[q].st = "sent"
    /\ net' = [net EXCEPT ![q] = [@ EXCEPT !.st = "fail"]]
    /\ UNCHANGED <<map, marker, cityInput, pinInput, dateInput, checkboxes,
                   loading, barChart, lineChart, infoCard, inv, fetches, alerts>>

\* Finish with the flag cleared at the end of the try block instead of in
\* a finally block
FinishWithoutFinally(q, message) ==
    /\ alerts' = IF message = "" THEN alerts
                 ELSE Append(alerts, AlertText(message))
    /\ loading' = IF message = "" THEN FALSE ELSE loading
    /\ inv' = [inv EXCEPT ![q].pc = "done"]
    /\ net' = [net EXCEPT ![q] = Closed]

\* script.js:81-86: catch (when message # "") and finally
Finish(q, message) ==
    /\ alerts' = IF message = "" THEN alerts
                 ELSE Append(alerts, AlertText(message))
    /\ loading' = FALSE
    /\ inv' = [inv EXCEPT ![q].pc = "done"]
    /\ net' = [net EXCEPT ![q] = Closed]

\* script.js:24-31: the fetch promise settles
FetchSettled(q) ==
    /\ q \in Invocations
    /\ inv[q].pc = "fetch"
    /\ net[q].st \in {"fail", "resp"}
    /\ IF net[q].st = "fail"
       THEN Finish(q, "Failed to fetch")
       ELSE IF ~Ok(net[q].status)
       THEN Finish(q, "Server " \o NatToStr(net[q].status))
       ELSE /\ inv' = [inv EXCEPT ![q].pc = "json"]
            /\ UNCHANGED <<loading, net, alerts>>
    /\ UNCHANGED <<map, marker, cityInput, pinInput, dateInput, checkboxes,
                   barChart, lineChart, infoCard, fetches>>

\* JsonSettled with a guard: the response of an invocation that is no
\* longer the latest is dropped
JsonSettledIfLatest(q) ==
    /\ q \in Invocations
    /\ inv[q].pc = "json"
    /\ IF ~net[q].parses
       THEN /\ Finish(q, "Unexpected token < in JSON at position 0")
            /\ UNCHANGED <<map, marker, barChart, lineChart, infoCard>>
       ELSE IF q # Len(inv)
       THEN /\ Finish(q, "")
            /\ UNCHANGED <<map, marker, barChart, lineChart, infoCard>>
       ELSE \E accept \in AcceptChoices(map, net[q].data) :
              \E r \in {Render(inv[q], net[q].data, accept)} :
              /\ map' = r.map
              /\ marker' = r.marker
              /\ barChart' = r.barChart
              /\ lineChart' = r.lineChart
              /\ infoCard' = r.infoCard
              /\ Finish(q, r.err)
    /\ UNCHANGED <<cityInput, pinInput, dateInput, checkboxes, fetches>>

\* script.js:31-86: the resp.json() promise settles
JsonSettled(q) ==
    /\ q \in Invocations
    /\ inv[q].pc = "json"
    /\ IF ~net[q].parses
       THEN /\ Finish(q, "Unexpected token < in JSON at position 0")
            /\ UNCHANGED <<map, marker, barChart, lineChart, infoCard>>
       ELSE \E accept \in AcceptChoices(map, net[q].data) :
              \E r \in {Render(inv[q], net[q].data, accept)} :
              /\ map' = r.map
              /\ marker' = r.marker
              /\ barChart' = r.barChart
              /\ lineChart' = r.lineChart
              /\ infoCard' = r.infoCard
              /\ Finish(q, r.err)
    /\ UNCHANGED <<cityInput, pinInput, dateInput, checkboxes, fetches>>


----------------------------------------------------------------------------
(* Inputs.                                                                 *)

DocumentOrder == <<"hot", "cold", "wet", "windy", "uncomfortable">>

Point(date, hot, wet) == JObj([date |-> date, hot |-> hot, wet |-> wet])

\* a full answer, for Lahore
DataA == [coords |-> JArr(<<JNum(Num(3155, 100)), JNum(Num(7434, 100))>>),
          city |-> JStr("Lahore"),
          probabilities |-> JObj([very_hot |-> JInt(72), very_wet |-> JInt(10)]),
          time_series |-> JArr(<<Point(JStr("2025-01-01"), JInt(41), JInt(0))>>)]
\* an answer that names no city
DataB == [NoData EXCEPT !.coords = JArr(<<JNum(Num(2490, 100)), JNum(Int2Num(67))>>),
                        !.probabilities = JObj([very_cold |-> JInt(5)])]
\* coords that are no numbers
DataC == [NoData EXCEPT !.coords = JArr(<<JNull, JStr("x")>>)]
\* a time series that is no array
DataT == [NoData EXCEPT !.time_series = JInt(5)]

----------------------------------------------------------------------------
(* Spec: the map, the marker and overlapping queries.                      *)

Clicks == { <<Num(24860004, 1000000), Num(67001236, 1000000)>> }
Replies == { Reply(200, TRUE, DataA), Reply(200, TRUE, DataB),
             Reply(200, TRUE, DataC) }

Init == PageInit({DocumentOrder}, {{}}, {<<>>}, {<<>>})

Next ==
    \/ DOMContentLoaded
    \/ \E p \in Clicks : MapClick(p[1], p[2])
    \/ TypeCity("Lahore")
    \/ Len(inv) < MaxQueries /\ CheckWeather
    \/ \E q \in Invocations, reply \in Replies : Respond(q, reply)
    \/ \E q \in Invocations : FetchSettled(q)
    \/ \E q \in Invocations : JsonSettled(q)

Spec == Init /\ [][Next]_vars

----------------------------------------------------------------------------
(* LoadingSpec: every way an invocation ends, with every request settling. *)

Outcomes == { Reply(500, FALSE, NoData), Reply(200, FALSE, NoData),
              Reply(200, TRUE, NoData), Reply(200, TRUE, DataT) }

Settle ==
    \/ \E q \in Invocations, reply \in Outcomes : Respond(q, reply)
    \/ \E q \in Invocations : NetworkFail(q)
    \/ \E q \in Invocations : FetchSettled(q)
    \/ \E q \in Invocations : JsonSettled(q)

LoadingNext ==
    \/ Len(inv) < MaxQueries /\ CheckWeather
    \/ Settle

LoadingSpec == Init /\ [][LoadingNext]_vars /\ WF_vars(Settle)

----------------------------------------------------------------------------
(* FormSpec: the form, the map click and one query.                        *)

\* numbers a click may carry, each with the text of its 5 decimals
Samples == << [x |-> Num(24860004, 1000000),  s |-> "24.86000"],
              [x |-> Num(179999996, 1000000), s |-> "180.00000"],
              [x |-> Num(-33868800, 1000000), s |-> "-33.86880"],
              [x |-> Num(-1, 1000000),        s |-> "-0.00000"] >>

\* (lat, lng) of the clicks, as indices into Samples
FormClicks == { <<1, 2>>, <<3, 4>> }

FormNext ==
    \/ DOMContentLoaded
    \/ \E p \in FormClicks : MapClick(Samples[p[1]].x, Samples[p[2]].x)
    \/ TypeCity("Lahore")
    \/ TypePin(" 10,20 ")
    \/ \E date \in {Today, "2025-01-01"} : PickDate(date)
    \/ ToggleCheckbox("wet")
    \/ inv = <<>> /\ CheckWeather
    \/ \E q \in Invocations : Respond(q, Reply(200, TRUE, DataA))
    \/ \E q \in Invocations : FetchSettled(q)
    \/ \E q \in Invocations : JsonSettled(q)

FormSpec == Init /\ [][FormNext]_vars

----------------------------------------------------------------------------
(* RenderSpec: one query, over the checkbox states and the shapes of a     *)
(* response.                                                               *)

Reverse(seq) == [i \in 1..Len(seq) |-> seq[Len(seq) + 1 - i]]

StaleBar == [className |-> "bar-item", height |-> Int2Num(33),
             background |-> "#000", label |-> "Stale", text |-> Int2Num(33)]

CoordsInputs == { JUndef, JNull, JInt(5), JStr(""), JArr(<<JInt(1)>>),
                  JArr(<<JInt(1), JInt(2), JInt(3)>>),
                  JArr(<<JNum(Num(3155, 100)), JNum(Num(7434, 100))>>),
                  JArr(<<JNull, JStr("x")>>),
                  JObj([length |-> JInt(2)]) }
CityInputs == { JUndef, JNull, JStr(""), JStr("Lahore"), JInt(7) }
ProbInputs == { JUndef, JNull, JInt(5), JStr("high"), JArr(<<>>),
                JObj([very_hot |-> JInt(72)]),
                JObj([very_hot |-> JStr("72"), very_cold |-> JNull,
                      very_wet |-> JInt(0), very_windy |-> JInt(150)]),
                JObj([very_hot |-> JInt(1), very_cold |-> JInt(2),
                      very_wet |-> JInt(3), very_windy |-> JInt(4),
                      uncomfortable |-> JNum(Num(111, 2))]) }
SeriesInputs == { JUndef, JNull, JInt(0), JInt(5), JStr("soon"),
                  JObj([points |-> JArr(<<>>)]), JArr(<<>>), JArr(<<JNull>>),
                  JArr(<<JInt(3)>>),
                  JArr(<<Point(JStr("2025-01-01"), JInt(41), JInt(0))>>),
                  JArr(<<Point(JNull, JStr("hot"), JNull),
                         JObj([date |-> JInt(2025)])>>) }

\* every response that differs from a base in one field
Variations(base) ==
    {[base EXCEPT !.coords = c] : c \in CoordsInputs}
    \cup {[base EXCEPT !.city = c] : c \in CityInputs}
    \cup {[base EXCEPT !.probabilities = c] : c \in ProbInputs}
    \cup {[base EXCEPT !.time_series = c] : c \in SeriesInputs}

RenderReplies == {Reply(200, TRUE, d) : d \in Variations(NoData) \cup Variations(DataA)}

RenderInit == PageInit({DocumentOrder, Reverse(DocumentOrder)}, SUBSET CheckboxIds,
                       {<<>>, <<StaleBar>>}, {<<>>})

RenderNext ==
    \/ DOMContentLoaded
    \/ inv = <<>> /\ CheckWeather
    \/ \E q \in Invocations, reply \in RenderReplies : Respond(q, reply)
    \/ \E q \in Invocations : FetchSettled(q)
    \/ \E q \in Invocations : JsonSettled(q)

RenderSpec == RenderInit /\ [][RenderNext]_vars

----------------------------------------------------------------------------
(* ChartSpec: one query, over the time series of up to MaxTsLen elements.  *)

\* the date of the i-th element of a series
DateAt(i) == "2025-01-" \o PadDigits(i, 2)

\* the i-th element by kind: a point, a point with a text for hot and no
\* wet, null
ElementAt(i, kind) ==
    CASE kind = "point" -> Point(JStr(DateAt(i)), JInt(30 + i), JInt(5))
      [] kind = "odd"   -> JObj([date |-> JStr(DateAt(i)), hot |-> JStr("n/a")])
      [] OTHER          -> JNull

SeriesOfLength(n) ==
    {JArr([i \in 1..n |-> ElementAt(i, kinds[i])]) :
        kinds \in [1..n -> {"point", "odd"}]}

ChartSeries == UNION {SeriesOfLength(n) : n \in 0..MaxTsLen}
                 \cup {JUndef, JNull, JInt(5), JArr(<<ElementAt(1, "null")>>),
                       JArr(<<ElementAt(1, "point"), ElementAt(2, "null")>>)}

ChartReplies == {Reply(200, TRUE, [NoData EXCEPT !.time_series = ts]) : ts \in ChartSeries}

ChartInit == PageInit({DocumentOrder}, {{}}, {<<>>}, {<<>>, Legend})

ChartNext ==
    \/ inv = <<>> /\ CheckWeather
    \/ \E q \in Invocations, reply \in ChartReplies : Respond(q, reply)
    \/ \E q \in Invocations : FetchSettled(q)
    \/ \E q \in Invocations : JsonSettled(q)

ChartSpec == ChartInit /\ [][ChartNext]_vars

----------------------------------------------------------------------------
(* Steps of an invocation, told from the states before and after.          *)

\* invocation q ends in this step
Ends(q) == inv[q].pc # "done" /\ inv'[q].pc = "done"

\* invocation q ends in this step having rendered without an exception
RendersCleanly(q) == inv[q].pc = "json" /\ net[q].parses /\ Ends(q) /\ alerts' = alerts

\* coords of a response that the marker code takes: an array of two
HasPair(data) == data.coords.t = "array" /\ Len(data.coords.v) = 2

----------------------------------------------------------------------------
(* C1: the loading flag is false before the first checkWeather call and at *)
(* the moment any invocation ends, whichever way it ended; with every      *)
(* request settling, a set flag is eventually cleared.                     *)
LoadingClears ==
    /\ [](inv = <<>> => ~loading)
    /\ [][\A q \in Invocations : Ends(q) => ~loading']_vars
    /\ (loading ~> ~loading)

\* an invocation that rendered and one that raised an alert are both over
LoadingClearedBothWays ==
    /\ Len(inv) = 2
    /\ \A q \in Invocations : inv[q].pc = "done"
    /\ Len(alerts) = 1
    /\ ~loading

(* C2: at most one marker layer is attached to the map, and it is the one  *)
(* the script holds.                                                       *)
AtMostOneMarker ==
    /\ MarkerCount(map) <= 1
    /\ MarkerLayers(map) \subseteq {marker}

\* a response with coords has replaced the marker a map click had placed
ResponseReplacedClickMarker ==
    /\ pinInput # ""
    /\ marker.popup = JStr("Lahore")
    /\ marker.pos = DataA.coords.v
    /\ MarkerCount(map) = 1

(* C7: whenever a /check request is outstanding the loading flag is true.  *)
LoadingWhileOutstanding == Outstanding # {} => loading

(* C8: each invocation sends exactly one request, at the call, and a       *)
(* response that parses is rendered whatever other invocations have done   *)
(* since: the page then shows that invocation's response, also when a      *)
(* later invocation has already rendered.                                  *)
ShowsReply(q) ==
    /\ barChart' = RenderBars(<<>>, inv[q].selected, net[q].data)
    /\ lineChart' = DrawLineChart(<<>>, TimeSeriesOf(net[q].data)).svg
    /\ infoCard' = SummaryCard(net[q].data, inv[q].city, inv[q].date)
    /\ (map.ready /\ HasPair(net[q].data)) =>
          /\ marker'.pos = net[q].data.coords.v
          /\ marker'.popup = JOr(net[q].data.city, JStr(inv[q].city))

OverlapUnguarded ==
    /\ [](fetches = Len(inv))
    /\ [][Len(inv') > Len(inv) =>
            /\ fetches' = fetches + 1
            /\ net'[Len(inv')].st = "sent"]_vars
    /\ [][\A q \in Invocations : RendersCleanly(q) => ShowsReply(q)]_vars

\* both invocations rendered; the second asked for Lahore, and the page
\* shows the first one's Karachi
EarlierQueryShownLast ==
    /\ Len(inv) = 2
    /\ \A q \in Invocations : inv[q].pc = "done"
    /\ alerts = <<>>
    /\ inv[1].city = "Karachi" /\ inv[2].city = "Lahore"
    /\ infoCard.city = JStr("Karachi")
    /\ marker.popup = JStr("Karachi")
    /\ barChart = RenderBars(<<>>, <<>>, DataB)

----------------------------------------------------------------------------
(* What the claims expect, read off the response and the page.             *)

Range(seq) == {seq[i] : i \in 1..Len(seq)}

\* the ids of the checked checkboxes, as a set
CheckedSet(boxes) == {boxes[i].id : i \in {j \in 1..Len(boxes) : boxes[j].checked}}

\* the entries of the metric table for a set of checked ids, in table order
ExpectedMetrics(ids) == SelectSeq(METRICS, LAMBDA m : ids = {} \/ m.id \in ids)

\* the number under key in the probabilities of a response, 0 without one
ExpectedProb(data, key) ==
    IF /\ data.probabilities.t = "object"
       /\ key \in DOMAIN data.probabilities.v
       /\ data.probabilities.v[key].t = "number"
    THEN data.probabilities.v[key].v
    ELSE Int2Num(0)

\* the time series checkWeather hands to drawLineChart
SeriesOf(q) == TimeSeriesOf(net[q].data)

IsEmptySeries(ts) == ~Truthy(ts) \/ (ts.t = "array" /\ Len(ts.v) = 0)

\* the last 6 elements of a series, all of them when there are fewer
LastSix(ts) ==
    LET n == Len(ts.v)
        k == IF n > 6 THEN 6 ELSE n
    IN  [i \in 1..k |-> ts.v[n - k + i]]

OnlyPlaceholder(svg) ==
    /\ Len(svg) = 1
    /\ svg[1].tag = "text"
    /\ svg[1].body = <<JStr("No time-series data")>>

EndsWithLegend(svg) ==
    /\ Len(svg) >= 4
    /\ LET l == SubSeq(svg, Len(svg) - 3, Len(svg)) IN
       /\ [i \in 1..4 |-> l[i].tag] = <<"rect", "text", "rect", "text">>
       /\ l[1].fill = "#ff6b6b" /\ l[3].fill = "#70d6ff"
       /\ l[2].body = <<JStr("Temp (°C)")>> /\ l[4].body = <<JStr("Rain (mm)")>>

(* C3: a successful query draws all 5 metrics when no checkbox was checked *)
(* at the call, otherwise exactly the checked ones, one bar each, in table *)
(* order, and nothing drawn before stays.                                  *)
BarsFollowSelection ==
    /\ [][Len(inv') > Len(inv) =>
            Range(inv'[Len(inv')].selected) = CheckedSet(checkboxes)]_vars
    /\ [][\A q \in Invocations : RendersCleanly(q) =>
            LET want == ExpectedMetrics(Range(inv[q].selected)) IN
            /\ Len(barChart') = Len(want)
            /\ \A i \in 1..Len(want) :
                 /\ barChart'[i].label = want[i].label
                 /\ barChart'[i].background = want[i].color]_vars

\* wet stands before hot in the document and both are checked: the bars
\* are hot, then wet, and the bar the page started with is gone
BarsInTableOrder ==
    /\ inv # <<>> /\ inv[1].pc = "done" /\ alerts = <<>>
    /\ inv[1].selected = <<"wet", "hot">>
    /\ [i \in 1..Len(barChart) |-> barChart[i].label] = <<"Very hot", "Very wet">>

(* C4: a bar shows the number the response holds under the metric's key,   *)
(* and 0 when there is no probabilities object, no such entry or no        *)
(* number there; none of these raises an alert.                            *)
Benign(data) ==
    /\ data.coords \in {JUndef, DataA.coords}
    /\ data.time_series \in {JUndef, DataA.time_series}

MissingProbabilityIsZero ==
    /\ [][\A q \in Invocations : RendersCleanly(q) =>
            LET want == ExpectedMetrics(Range(inv[q].selected)) IN
            /\ Len(barChart') = Len(want)
            /\ \A i \in 1..Len(want) :
                 /\ barChart'[i].height = ExpectedProb(net[q].data, want[i].key)
                 /\ barChart'[i].text = ExpectedProb(net[q].data, want[i].key)]_vars
    /\ [][\A q \in Invocations :
            (inv[q].pc = "json" /\ net[q].parses /\ Ends(q) /\ Benign(net[q].data))
            => alerts' = alerts]_vars

\* the response held the text "72" under very_hot: the card repeats it,
\* the bar shows 0, no alert
TextProbabilityShownAsZero ==
    /\ inv # <<>> /\ inv[1].pc = "done" /\ alerts = <<>>
    /\ infoCard.hp = JStr("72")
    /\ barChart # <<>>
    /\ barChart[1].label = "Very hot"
    /\ barChart[1].height = Int2Num(0)

(* C5: of a series of more than 6 points the last 6 are drawn, in order,   *)
(* each as a hot circle, a wet circle and a date label, and no earlier     *)
(* one; of 1 to 6 points all are; an empty or absent series gives the      *)
(* placeholder only, no path and no circle.                                *)
LastSixPointsDrawn ==
    [][\A q \in Invocations : RendersCleanly(q) =>
         IF IsEmptySeries(SeriesOf(q))
         THEN /\ OnlyPlaceholder(lineChart')
              /\ \A i \in 1..Len(lineChart') : lineChart'[i].tag \notin {"path", "circle"}
         ELSE LET w == LastSix(SeriesOf(q))
                  k == Len(w)
              IN  /\ Len(lineChart') = 3 + 3 * k + 4
                  /\ [i \in 1..3 |-> lineChart'[i].tag] = <<"line", "path", "path">>
                  /\ \A j \in 1..k :
                       /\ lineChart'[3 * j + 1].tag = "circle"
                       /\ lineChart'[3 * j + 1].fill = "#ff6b6b"
                       /\ lineChart'[3 * j + 2].tag = "circle"
                       /\ lineChart'[3 * j + 2].fill = "#70d6ff"
                       /\ lineChart'[3 * j + 3].tag = "text"
                       /\ lineChart'[3 * j + 3].body = <<Prop(w[j], "date")>>]_vars

\* a series of 7 was drawn: 6 points, from the 2nd date to the 7th
SevenPointSeriesDrawn ==
    /\ inv # <<>> /\ inv[1].pc = "done" /\ alerts = <<>>
    /\ Len(lineChart) = 25
    /\ lineChart[6].body = <<JStr(DateAt(2))>>
    /\ lineChart[21].body = <<JStr(DateAt(7))>>

(* C6: a map click writes "<lat>,<lon>" with 5 decimals each into the pin  *)
(* field, empties the city field, leaves one marker, at those coordinates, *)
(* and leaves the date, the checkboxes, the charts and the card alone.     *)
ClickFillsPin ==
    [][\A p \in FormClicks :
         MapClick(Samples[p[1]].x, Samples[p[2]].x) =>
           /\ pinInput' = Samples[p[1]].s \o "," \o Samples[p[2]].s
           /\ cityInput' = ""
           /\ marker'.pos = <<JStr(Samples[p[1]].s), JStr(Samples[p[2]].s)>>
           /\ MarkerLayers(map') = {marker'}
           /\ MarkerCount(map') = 1
           /\ UNCHANGED <<dateInput, checkboxes, barChart, lineChart, infoCard>>]_vars

\* a click after a city was typed, a date picked and a query rendered
ClickAfterQuery ==
    /\ inv # <<>> /\ inv[1].pc = "done" /\ inv[1].city = "Lahore"
    /\ barChart # <<>>
    /\ dateInput = "2025-01-01"
    /\ pinInput = "-33.86880,-0.00000"
    /\ cityInput = ""
    /\ marker.pos = <<JStr("-33.86880"), JStr("-0.00000")>>

(* C9: after every call of drawLineChart that returns, the fixed legend is *)
(* in the chart and its elements are the last ones.                        *)
LegendAlwaysLast ==
    [][\A q \in Invocations : RendersCleanly(q) => EndsWithLegend(lineChart')]_vars

(* C9, amended: after a call of drawLineChart with a non-empty series of   *)
(* points the fixed legend is in the chart and its elements are the last   *)
(* ones; after a call with an empty or absent series the chart holds the   *)
(* placeholder text only, and no legend.                                   *)
LegendLastWhenDataDrawn ==
    [][\A q \in Invocations : RendersCleanly(q) =>
         IF IsEmptySeries(SeriesOf(q))
         THEN OnlyPlaceholder(lineChart') /\ ~EndsWithLegend(lineChart')
         ELSE EndsWithLegend(lineChart')]_vars

\* the page started with a legend in the chart; a query with no series has
\* left the placeholder alone
PlaceholderWithoutLegend ==
    /\ inv # <<>> /\ inv[1].pc = "done" /\ alerts = <<>>
    /\ OnlyPlaceholder(lineChart)

(* C10: whatever is missing, null or of the wrong type in a response that  *)
(* parses, checkWeather raises no exception of its own: it shows no alert  *)
(* (but for a position Leaflet refuses) and updates the summary card.      *)
MalformedNeverRaises ==
    [][\A q \in Invocations :
         (inv[q].pc = "json" /\ net[q].parses /\ Ends(q)) =>
            \/ /\ alerts' = alerts
               /\ infoCard' = SummaryCard(net[q].data, inv[q].city, inv[q].date)
            \/ alerts' = Append(alerts, AlertText("Invalid LatLng object"))]_vars

====
